---- MODULE Spec2Model ----
(***************************************************************************)
(* Laser-Tag-Free4All: the session controller of laser_tag_app.c (the main *)
(* loop, the timer callback, the input callback and the RFID tag callback) *)
(* together with the three collaborators it drives.  game_state.c,         *)
(* infrared_controller.c and lfrfid_reader.c are not part of the source    *)
(* tree at hand; their operations are modelled from the design document.   *)
(***************************************************************************)
EXTENDS Integers, Sequences, FiniteSets, TLC

\* ------------------------------------------------------------------ bounds

\* game_state.h is not in the tree: INITIAL_AMMO is "a fixed constant" of the
\* design document, and every property below is parametric in it.
INITIAL_AMMO == 2

\* elapsed_time is capped: the timer does not advance it past MaxTime.
MaxTime == 1

\* ------------------------------------------------------- program constants

INITIAL_HEALTH == 100
HIT_DAMAGE == 10
SCAN_POLLS == 30
TAG_LENGTH == 5
TAG_MAGIC_0 == 19
TAG_MAGIC_1 == 55
TAG_ACTION_AMMO == 253
UINT16 == 65536

\* ------------------------------------------------------------------ inputs

InputKeys == {"Ok", "Back", "Up", "Down"}
InputTypes == {"Press", "Repeat", "Release"}
InputEvents == [type : InputTypes, key : InputKeys]
NoEvent == [type |-> "None", key |-> "None"]

\* Amount bytes a tag may carry: every headroom case, the documented 0x0A
\* and the largest byte.
AmountBytes == (0 .. INITIAL_AMMO) \cup {10, 255}

\* Payloads handed to the tag callback, as (data, length): the refill tag
\* with every amount and either reserved byte, and the documented tag
\* 13 37 00 FD 0A with its length, a magic byte or its action code changed.
Tag(b0, b1, b2, b3, b4, n) ==
    [data |-> <<b0, b1, b2, b3, b4, 0>>, length |-> n]

RefillTags ==
    { Tag(TAG_MAGIC_0, TAG_MAGIC_1, b2, TAG_ACTION_AMMO, b4, TAG_LENGTH) :
        b2 \in {0, 255}, b4 \in AmountBytes }

OtherTags ==
    { Tag(TAG_MAGIC_0, TAG_MAGIC_1, 0, TAG_ACTION_AMMO, 10, 4),
      Tag(TAG_MAGIC_0, TAG_MAGIC_1, 0, TAG_ACTION_AMMO, 10, 6),
      Tag(0, TAG_MAGIC_1, 0, TAG_ACTION_AMMO, 10, TAG_LENGTH),
      Tag(TAG_MAGIC_0, TAG_MAGIC_0, 0, TAG_ACTION_AMMO, 10, TAG_LENGTH),
      Tag(TAG_MAGIC_1, TAG_MAGIC_0, 0, TAG_ACTION_AMMO, 10, TAG_LENGTH),
      Tag(TAG_MAGIC_0, TAG_MAGIC_1, 0, 254, 10, TAG_LENGTH),
      Tag(0, 0, 0, 0, 0, TAG_LENGTH) }

TagPayloads == RefillTags \cup OtherTags

\* ------------------------------------------------------------------- state

VARIABLES
    state,              \* app->state: SplashScreen, Game, GameOver
    need_redraw,        \* app->need_redraw
    health,             \* game_state->health
    ammo,               \* game_state->ammo
    game_time,          \* game_state elapsed time, seconds
    ir_controller,      \* app->ir_controller: "NULL" or "live"
    hit_received,       \* ir_controller->hit_received
    processing_signal,  \* ir_controller->processing_signal
    worker_rx_active,   \* ir_controller->worker_rx_active
    reader_scanning,    \* the tag reader is between start() and stop()'s return
    event,              \* laser_tag_app's local `event`
    status,             \* laser_tag_app's local `status`
    running,            \* laser_tag_app's local `running`
    scan_ammo,          \* the Up handler's local `ammo`
    scan_i,             \* the Up handler's local `i`
    pc,                 \* position of the main thread
    log,                \* calls made to the collaborators in this iteration
    tag_result,         \* branch taken by the last tag callback of the window
    tag_delta,          \* tag_callback's local `delta_ammo` while it runs, else -1
    hits,               \* hits handled since the last game_state_reset
    ir_live,            \* InfraredController instances allocated and not freed
    set_after_update,   \* need_redraw was set after this iteration's view_port_update
    ammo0               \* ammo when the dispatch of this iteration began

vars == <<state, need_redraw, health, ammo, game_time, ir_controller,
          hit_received, processing_signal, worker_rx_active, reader_scanning,
          event, status, running, scan_ammo, scan_i, pc, log,
          tag_result, tag_delta, hits, ir_live, set_after_update, ammo0>>

gameVars == <<health, ammo, game_time>>
irVars == <<ir_controller, hit_received, processing_signal, worker_rx_active,
            ir_live>>
scanVars == <<reader_scanning, scan_ammo, scan_i, tag_result, tag_delta>>
loopVars == <<event, status, running, pc, log, ammo0>>

Min(a, b) == IF a < b THEN a ELSE b

Count(s, x) == Cardinality({i \in 1 .. Len(s) : s[i] = x})

\* --------------------------------------------------- game_state (GameState)

\* reset(): all fields back to their initial values.
game_state_reset == [health |-> INITIAL_HEALTH, ammo |-> INITIAL_AMMO, time |-> 0]

\* decreaseHealth(n): subtract n, clamp to 0.
game_state_decrease_health(h, n) == IF h > n THEN h - n ELSE 0

\* Mutant: decreaseAmmo without the clamp.
game_state_decrease_ammo_unclamped(a, n) == a - n

\* decreaseAmmo(n): subtract n, clamp to 0.
game_state_decrease_ammo(a, n) == IF a > n THEN a - n ELSE 0

\* increaseAmmo(n): add n, clamp to INITIAL_AMMO.
game_state_increase_ammo(a, n) == Min(a + n, INITIAL_AMMO)

\* isGameOver(): true iff health == 0.
game_state_is_game_over(h) == h = 0

\* ------------------------------------------------------------ tag_callback

\* uint16_t subtraction.
Sub16(a, b) == (a - b + UINT16) % UINT16

\* The branch tag_callback takes on (data, length); data is 1-indexed here,
\* so data[k + 1] is the C data[k].
tag_branch(data, length) ==
    IF length # TAG_LENGTH THEN "length"
    ELSE IF data[1] # TAG_MAGIC_0 \/ data[2] # TAG_MAGIC_1 THEN "magic"
    ELSE IF data[4] = TAG_ACTION_AMMO THEN "refill"
    ELSE "unknown"

\* Mutant: the comparison that caps the delta is inverted.
tag_callback_inverted_cap(data, length, a) ==
    IF tag_branch(data, length) = "refill"
    THEN LET max_delta_ammo == data[5]
             delta0 == Sub16(INITIAL_AMMO, a)
             delta_ammo == IF delta0 < max_delta_ammo THEN max_delta_ammo ELSE delta0
         IN  game_state_increase_ammo(a, delta_ammo)
    ELSE a

\* Mutant: the magic bytes are not compared.
tag_callback_no_magic(data, length, a) ==
    IF length = TAG_LENGTH /\ data[4] = TAG_ACTION_AMMO
    THEN LET max_delta_ammo == data[5]
             delta0 == Sub16(INITIAL_AMMO, a)
             delta_ammo == IF delta0 > max_delta_ammo THEN max_delta_ammo ELSE delta0
         IN  game_state_increase_ammo(a, delta_ammo)
    ELSE a

\* The ammo tag_callback leaves behind when it runs on ammo a.
tag_callback(data, length, a) ==
    IF tag_branch(data, length) = "refill"
    THEN LET max_delta_ammo == data[5]
             delta0 == Sub16(INITIAL_AMMO, a)
             delta_ammo == IF delta0 > max_delta_ammo THEN max_delta_ammo ELSE delta0
         IN  game_state_increase_ammo(a, delta_ammo)
    ELSE a

\* -------------------------------------------------------------------- Init

\* laser_tag_app_alloc, then the locals of laser_tag_app: `event` is declared
\* without an initial value, so it holds any event.
Init ==
    /\ state = "SplashScreen"
    /\ need_redraw = TRUE
    /\ health = INITIAL_HEALTH
    /\ ammo = INITIAL_AMMO
    /\ game_time = 0
    /\ ir_controller = "NULL"
    /\ hit_received = FALSE
    /\ processing_signal = FALSE
    /\ worker_rx_active = FALSE
    /\ reader_scanning = FALSE
    /\ event \in InputEvents
    /\ status = "Timeout"
    /\ running = TRUE
    /\ scan_ammo = 0
    /\ scan_i = 0
    /\ pc = "poll"
    /\ log = <<>>
    /\ tag_result = "none"
    /\ tag_delta = -1
    /\ hits = 0
    /\ ir_live = 0
    /\ set_after_update = FALSE
    /\ ammo0 = 0

\* ------------------------------------------------- background: the callbacks

\* laser_tag_app_timer_callback, once per second until the timer is freed.
laser_tag_app_timer_callback ==
    /\ pc # "done"
    /\ state = "Game" => game_time < MaxTime
    /\ game_time' = IF state = "Game" THEN game_time + 1 ELSE game_time
    /\ need_redraw' = TRUE
    /\ set_after_update' = (set_after_update \/ pc = "clear")
    /\ UNCHANGED <<state, health, ammo, irVars, scanVars, loopVars, hits>>

\* The delta tag_callback computes from the ammo it reads and data[4].
tag_delta_ammo(data, a) ==
    LET max_delta_ammo == data[5]
        delta0 == Sub16(INITIAL_AMMO, a)
    IN  IF delta0 > max_delta_ammo THEN max_delta_ammo ELSE delta0

\* The tag reader decodes a tag while scanning and invokes tag_callback on
\* its own thread, one invocation at a time. A rejected payload returns at
\* once; a refill reads ammo and computes delta_ammo here, and writes ammo
\* in a later step (TagIncrease), so that other threads run in between.
TagCallback(p) ==
    /\ reader_scanning
    /\ pc # "scan_join"
    /\ tag_delta = -1
    /\ tag_result' = tag_branch(p.data, p.length)
    /\ IF tag_branch(p.data, p.length) = "refill"
       THEN /\ tag_delta' = tag_delta_ammo(p.data, ammo)
            /\ ammo' = ammo
       ELSE /\ tag_delta' = -1
            /\ ammo' = tag_callback(p.data, p.length, ammo)
    /\ UNCHANGED <<state, need_redraw, health, game_time, irVars,
                   reader_scanning, scan_ammo, scan_i, loopVars, hits,
                   set_after_update>>

\* The running tag_callback calls game_state_increase_ammo and returns.
TagIncrease ==
    /\ tag_delta # -1
    /\ ammo' = game_state_increase_ammo(ammo, tag_delta)
    /\ tag_delta' = -1
    /\ UNCHANGED <<state, need_redraw, health, game_time, irVars,
                   reader_scanning, scan_ammo, scan_i, tag_result, loopVars,
                   hits,
                   set_after_update>>

\* The infrared worker starts decoding an incoming signal.
RxBegin ==
    /\ ir_controller = "live"
    /\ worker_rx_active
    /\ ~processing_signal
    /\ processing_signal' = TRUE
    /\ UNCHANGED <<state, need_redraw, gameVars, ir_controller, hit_received,
                   worker_rx_active, ir_live, scanVars, loopVars, hits,
                   set_after_update>>

\* The infrared worker finishes decoding: a pulse carrying the shoot command
\* (shoot = TRUE) is recorded as a pending hit.
RxEnd(shoot) ==
    /\ ir_controller = "live"
    /\ processing_signal
    /\ processing_signal' = FALSE
    /\ hit_received' = (hit_received \/ shoot)
    /\ UNCHANGED <<state, need_redraw, gameVars, ir_controller,
                   worker_rx_active, ir_live, scanVars, loopVars, hits,
                   set_after_update>>

\* ------------------------------------------------- the main thread's steps

\* The state the main thread works on, as one record, and its write-back.
App ==
    [state |-> state, need_redraw |-> need_redraw, health |-> health,
     ammo |-> ammo, game_time |-> game_time, ir_controller |-> ir_controller,
     hit_received |-> hit_received, processing_signal |-> processing_signal,
     worker_rx_active |-> worker_rx_active,
     reader_scanning |-> reader_scanning, event |-> event,
     status |-> status, running |-> running, scan_ammo |-> scan_ammo,
     scan_i |-> scan_i, pc |-> pc, log |-> log, tag_result |-> tag_result,
     tag_delta |-> tag_delta, hits |-> hits, ir_live |-> ir_live,
     set_after_update |-> set_after_update,
     ammo0 |-> ammo0]

Commit(a) ==
    /\ state' = a.state
    /\ need_redraw' = a.need_redraw
    /\ health' = a.health
    /\ ammo' = a.ammo
    /\ game_time' = a.game_time
    /\ ir_controller' = a.ir_controller
    /\ hit_received' = a.hit_received
    /\ processing_signal' = a.processing_signal
    /\ worker_rx_active' = a.worker_rx_active
    /\ reader_scanning' = a.reader_scanning
    /\ event' = a.event
    /\ status' = a.status
    /\ running' = a.running
    /\ scan_ammo' = a.scan_ammo
    /\ scan_i' = a.scan_i
    /\ pc' = a.pc
    /\ log' = a.log
    /\ tag_result' = a.tag_result
    /\ tag_delta' = a.tag_delta
    /\ hits' = a.hits
    /\ ir_live' = a.ir_live
    /\ set_after_update' = a.set_after_update
    /\ ammo0' = a.ammo0

\* Mutant: the reset restores health and time but not ammo.
ResetGame_keeps_ammo(a) ==
    [a EXCEPT !.health = game_state_reset.health,
              !.game_time = game_state_reset.time,
              !.hits = 0]

\* game_state_reset(app->game_state) on the record.
ResetGame(a) ==
    [a EXCEPT !.health = game_state_reset.health,
              !.ammo = game_state_reset.ammo,
              !.game_time = game_state_reset.time,
              !.hits = 0]

\* update_infrared_board_status: a board swap (swap = TRUE) may drop the
\* pending hit; nothing happens without a controller.
update_infrared_board_status(a, swap) ==
    IF a.ir_controller = "live" /\ swap
    THEN [a EXCEPT !.hit_received = FALSE]
    ELSE a

\* infrared_controller_alloc (ok = FALSE: it returns NULL).
infrared_controller_alloc(a, ok) ==
    IF ok
    THEN [a EXCEPT !.ir_controller = "live", !.hit_received = FALSE,
                   !.processing_signal = FALSE, !.worker_rx_active = TRUE,
                   !.ir_live = @ + 1,
                   !.log = Append(@, "ir_alloc")]
    ELSE a

\* infrared_controller_free.
infrared_controller_free(a) ==
    [a EXCEPT !.ir_controller = "NULL", !.hit_received = FALSE,
              !.processing_signal = FALSE, !.worker_rx_active = FALSE,
              !.ir_live = @ - 1,
              !.log = Append(@, "ir_free")]

\* infrared_controller_pause stops the receive worker; it returns once the
\* worker has stopped, so a signal being decoded has either been recorded
\* as a hit (shoot = TRUE) or is dropped.
infrared_controller_pause(a, shoot) ==
    [a EXCEPT !.worker_rx_active = FALSE, !.processing_signal = FALSE,
              !.hit_received = @ \/ (a.processing_signal /\ shoot),
              !.log = Append(@, "pause")]

\* infrared_controller_resume restarts the receive worker.
infrared_controller_resume(a) ==
    [a EXCEPT !.worker_rx_active = TRUE, !.log = Append(@, "resume")]

\* infrared_controller_receive: TRUE once per pending hit, which it clears.
infrared_controller_receive(a) == a.hit_received

\* Mutant: firing is gated on ammo.
laser_tag_app_fire_needs_ammo(a) ==
    IF a.ir_controller = "NULL" THEN a
    ELSE IF a.processing_signal \/ a.ammo = 0 THEN a
    ELSE [a EXCEPT !.ammo = game_state_decrease_ammo(@, 1),
                   !.log = @ \o <<"send", "short_beep", "blink_white">>,
                   !.need_redraw = TRUE]

\* Mutant: firing does not look at processing_signal.
laser_tag_app_fire_while_busy(a) ==
    IF a.ir_controller = "NULL" THEN a
    ELSE [a EXCEPT !.ammo = game_state_decrease_ammo(@, 1),
                   !.log = @ \o <<"send", "short_beep", "blink_white">>,
                   !.need_redraw = TRUE]

\* laser_tag_app_fire.
laser_tag_app_fire(a) ==
    IF a.ir_controller = "NULL" THEN a
    ELSE IF a.processing_signal THEN a
    ELSE [a EXCEPT !.ammo = game_state_decrease_ammo(@, 1),
                   !.log = @ \o <<"send", "short_beep", "blink_white">>,
                   !.need_redraw = TRUE]

\* Mutant: a hit costs twice the damage.
laser_tag_app_handle_hit_double(a) ==
    LET b == [a EXCEPT !.health = game_state_decrease_health(@, 2 * HIT_DAMAGE),
                       !.log = Append(@, "vibro"),
                       !.hits = @ + 1]
    IN  IF game_state_is_game_over(b.health)
        THEN [b EXCEPT !.log = Append(@, "error"),
                       !.state = "GameOver",
                       !.need_redraw = TRUE]
        ELSE b

\* laser_tag_app_handle_hit.
laser_tag_app_handle_hit(a) ==
    LET b == [a EXCEPT !.health = game_state_decrease_health(@, HIT_DAMAGE),
                       !.log = Append(@, "vibro"),
                       !.hits = @ + 1]
    IN  IF game_state_is_game_over(b.health)
        THEN [b EXCEPT !.log = Append(@, "error"),
                       !.state = "GameOver",
                       !.need_redraw = TRUE]
        ELSE b

\* Mutant: the previous controller is not freed on entry.
laser_tag_app_enter_game_state_leaks(a, ok) ==
    LET b == ResetGame([a EXCEPT !.state = "Game"])
        d == infrared_controller_alloc([b EXCEPT !.ir_controller = "NULL"], ok)
    IN  IF d.ir_controller = "NULL" THEN d
        ELSE [d EXCEPT !.need_redraw = TRUE]

\* laser_tag_app_enter_game_state; it returns false exactly when it leaves
\* ir_controller NULL.
laser_tag_app_enter_game_state(a, ok) ==
    LET b == ResetGame([a EXCEPT !.state = "Game"])
        c == IF b.ir_controller # "NULL" THEN infrared_controller_free(b) ELSE b
        d == infrared_controller_alloc(c, ok)
    IN  IF d.ir_controller = "NULL" THEN d
        ELSE [d EXCEPT !.need_redraw = TRUE]

\* Mutant: the Up case starts the reader without pausing reception.
ScanBegin_no_pause(a, shoot) ==
    [a EXCEPT !.log = @ \o <<"short_beep", "pause", "start">>,
              !.scan_ammo = a.ammo,
              !.reader_scanning = TRUE,
              !.tag_result = "none",
              !.scan_i = 0,
              !.pc = "scan"]

\* The Up case up to the polling loop: beep, pause, start.
ScanBegin(a, shoot) ==
    LET b == infrared_controller_pause(
                 [a EXCEPT !.log = Append(@, "short_beep")], shoot)
    IN  [b EXCEPT !.log = Append(@, "start"),
                  !.scan_ammo = a.ammo,
                  !.reader_scanning = TRUE,
                  !.tag_result = "none",
                  !.scan_i = 0,
                  !.pc = "scan"]

\* Mutant: the loop goes on after a failed controller allocation.
SplashKey_ignores_alloc_failure(a, key, ok) ==
    CASE key = "Ok" -> laser_tag_app_enter_game_state(a, ok)
      [] key = "Back" -> [a EXCEPT !.running = FALSE]
      [] OTHER -> a

\* Mutant: Back is not handled on the splash screen.
SplashKey_ignores_back(a, key, ok) ==
    CASE key = "Ok" ->
            LET b == laser_tag_app_enter_game_state(a, ok)
            IN  IF b.ir_controller = "NULL" THEN [b EXCEPT !.running = FALSE] ELSE b
      [] OTHER -> a

\* The event dispatch of one loop iteration, for a pressed or repeated key.
SplashKey(a, key, ok) ==
    CASE key = "Ok" ->
            LET b == laser_tag_app_enter_game_state(a, ok)
            IN  IF b.ir_controller = "NULL" THEN [b EXCEPT !.running = FALSE] ELSE b
      [] key = "Back" -> [a EXCEPT !.running = FALSE]
      [] OTHER -> a

GameOverKey(a, key) ==
    IF key = "Ok"
    THEN [ResetGame(a) EXCEPT !.state = "SplashScreen", !.need_redraw = TRUE]
    ELSE a

\* Mutant: Down reloads whatever the ammo is.
GameKey_reload_always(a, key, shoot) ==
    IF key = "Down"
    THEN [a EXCEPT !.ammo = game_state_increase_ammo(@, INITIAL_AMMO),
                   !.need_redraw = TRUE]
    ELSE CASE key = "Back" -> [a EXCEPT !.running = FALSE]
           [] key = "Ok" -> laser_tag_app_fire(a)
           [] key = "Up" -> ScanBegin(a, shoot)
           [] OTHER -> a

GameKey(a, key, shoot) ==
    IF key = "Down" /\ a.ammo = 0
    THEN [a EXCEPT !.ammo = game_state_increase_ammo(@, INITIAL_AMMO),
                   !.need_redraw = TRUE]
    ELSE CASE key = "Back" -> [a EXCEPT !.running = FALSE]
           [] key = "Ok" -> laser_tag_app_fire(a)
           [] key = "Up" -> ScanBegin(a, shoot)
           [] OTHER -> a

Dispatch(a, ok, shoot) ==
    IF a.status = "Ok" /\ a.event.type \in {"Press", "Repeat"}
    THEN CASE a.state = "SplashScreen" -> SplashKey(a, a.event.key, ok)
           [] a.state = "GameOver" -> GameOverKey(a, a.event.key)
           [] a.state = "Game" -> GameKey(a, a.event.key, shoot)
    ELSE a

\* furi_message_queue_get with its timeout.  The queue is written only by
\* laser_tag_app_input_callback, which puts every event the input service
\* delivers, and read only here: `in` is the event at its head, or NoEvent
\* when the 100 ms pass with the queue empty.  (Any other failure status
\* takes the logging branch at line 370, which changes nothing either.)
furi_message_queue_get(a, in) ==
    IF in # NoEvent
    THEN [a EXCEPT !.status = "Ok", !.event = in]
    ELSE [a EXCEPT !.status = "Timeout"]

\* The hit poll and the game-over checks that follow the dispatch.
HitCheck(a) ==
    IF a.state = "Game" /\ a.ir_controller # "NULL"
    THEN LET b == IF infrared_controller_receive(a)
                  THEN laser_tag_app_handle_hit([a EXCEPT !.hit_received = FALSE])
                  ELSE a
         IN  IF game_state_is_game_over(b.health)
             THEN [b EXCEPT !.log = Append(@, "error"),
                            !.state = "GameOver",
                            !.need_redraw = TRUE]
             ELSE b
    ELSE IF a.state = "GameOver"
    THEN IF a.event.key = "Ok"
         THEN [ResetGame(a) EXCEPT !.state = "SplashScreen", !.need_redraw = TRUE]
         ELSE a
    ELSE a

\* Top of an iteration: update_infrared_board_status, the dequeue and the
\* dispatch.  swap: a board was attached or detached; ok: a controller
\* allocation succeeds; shoot: a signal being decoded when reception is
\* paused is a hit.  Each is drawn only in the states where it is read.
Poll ==
    /\ pc = "poll"
    /\ \E in \in InputEvents \cup {NoEvent},
          swap \in IF hit_received THEN BOOLEAN ELSE {FALSE},
          ok \in IF state = "SplashScreen" THEN BOOLEAN ELSE {TRUE},
          shoot \in IF processing_signal THEN BOOLEAN ELSE {FALSE} :
          Commit(Dispatch(
                    furi_message_queue_get(
                        update_infrared_board_status(
                            [App EXCEPT !.pc = "recv", !.ammo0 = ammo], swap),
                        in),
                    ok, shoot))

\* Mutant: the polling loop has no break.
ScanPoll_no_break ==
    /\ pc = "scan"
    /\ Commit(IF scan_i + 1 >= SCAN_POLLS
              THEN [App EXCEPT !.scan_i = 0, !.pc = "scan_stop"]
              ELSE [App EXCEPT !.scan_i = @ + 1])

\* One round of the polling loop of the Up case: the delay, the comparison
\* and the loop test; `i` goes out of scope when the loop is left.
ScanPoll ==
    /\ pc = "scan"
    /\ Commit(IF scan_ammo # ammo \/ scan_i + 1 >= SCAN_POLLS
              THEN [App EXCEPT !.scan_i = 0, !.pc = "scan_stop"]
              ELSE [App EXCEPT !.scan_i = @ + 1])

\* lfrfid_reader_stop is called: from here on the reader starts no further
\* tag callback.
ScanStop ==
    /\ pc = "scan_stop"
    /\ Commit([App EXCEPT !.log = Append(@, "stop"), !.pc = "scan_join"])

\* Mutant: lfrfid_reader_stop returns while a tag callback is still running.
ScanJoin_no_wait ==
    /\ pc = "scan_join"
    /\ Commit([App EXCEPT
                  !.reader_scanning = FALSE,
                  !.worker_rx_active = TRUE,
                  !.log = @ \o <<"resume",
                                 IF scan_ammo # ammo THEN "success" ELSE "error">>,
                  !.need_redraw = TRUE,
                  !.scan_ammo = 0,
                  !.pc = "recv"])

\* Mutant: the Up case ends without infrared_controller_resume.
ScanJoin_no_resume ==
    /\ pc = "scan_join"
    /\ tag_delta = -1
    /\ Commit([App EXCEPT
                  !.reader_scanning = FALSE,
                  !.log = @ \o <<IF scan_ammo # ammo THEN "success" ELSE "error">>,
                  !.need_redraw = TRUE,
                  !.scan_ammo = 0,
                  !.pc = "recv"])

\* Mutant: the result effect follows the decoded tag, not the ammo.
ScanJoin_result_by_tag ==
    /\ pc = "scan_join"
    /\ tag_delta = -1
    /\ Commit([App EXCEPT
                  !.reader_scanning = FALSE,
                  !.worker_rx_active = TRUE,
                  !.log = @ \o <<"resume",
                                 IF tag_result = "refill" THEN "success" ELSE "error">>,
                  !.need_redraw = TRUE,
                  !.scan_ammo = 0,
                  !.pc = "recv"])

\* The rest of the Up case: lfrfid_reader_stop joins the reader's thread, so
\* it returns only after a running tag callback has returned; then resume
\* and the result effect.
ScanJoin ==
    /\ pc = "scan_join"
    /\ tag_delta = -1
    /\ Commit([infrared_controller_resume(App) EXCEPT
                  !.reader_scanning = FALSE,
                  !.log = Append(@, IF scan_ammo # ammo THEN "success" ELSE "error"),
                  !.need_redraw = TRUE,
                  !.scan_ammo = 0,
                  !.pc = "recv"])

Recv ==
    /\ pc = "recv"
    /\ Commit([HitCheck(App) EXCEPT !.pc = "redraw"])

\* furi_delay_ms(10) and the loop test; the log, ammo0, tag_result and
\* set_after_update start afresh in every iteration.
NextIteration(a) ==
    [a EXCEPT !.log = <<>>, !.ammo0 = 0, !.tag_result = "none",
              !.set_after_update = FALSE,
              !.pc = IF a.running THEN "poll" ELSE "exit"]

\* if(app->need_redraw) view_port_update(...)
Redraw ==
    /\ pc = "redraw"
    /\ Commit(IF need_redraw
              THEN [App EXCEPT !.log = Append(@, "view_port_update"), !.pc = "clear"]
              ELSE NextIteration(App))

\* app->need_redraw = false
Clear ==
    /\ pc = "clear"
    /\ Commit(NextIteration([App EXCEPT !.need_redraw = FALSE]))

\* laser_tag_app_free.
laser_tag_app_free ==
    /\ pc = "exit"
    /\ Commit([(IF ir_controller # "NULL" THEN infrared_controller_free(App) ELSE App)
                  EXCEPT !.reader_scanning = FALSE, !.pc = "done"])

Next ==
    \/ laser_tag_app_timer_callback
    \/ \E p \in TagPayloads : TagCallback(p)
    \/ TagIncrease
    \/ RxBegin
    \/ \E shoot \in BOOLEAN : RxEnd(shoot)
    \/ Poll
    \/ ScanPoll
    \/ ScanStop
    \/ ScanJoin
    \/ Recv
    \/ Redraw
    \/ Clear
    \/ laser_tag_app_free

Spec == Init /\ [][Next]_vars

\* The steps of the main thread, which the scheduler keeps running: a delay
\* or a queue wait of laser_tag_app always returns. So does a tag callback
\* that has started.
MainThread ==
    \/ Poll \/ ScanPoll \/ ScanStop \/ ScanJoin
    \/ Recv \/ Redraw \/ Clear \/ laser_tag_app_free

FairSpec == Spec /\ WF_vars(MainThread) /\ WF_vars(TagIncrease)

TypeOK ==
    /\ state \in {"SplashScreen", "Game", "GameOver"}
    /\ health \in 0 .. INITIAL_HEALTH
    /\ ammo \in 0 .. INITIAL_AMMO
    /\ scan_i \in 0 .. (SCAN_POLLS - 1)
    /\ tag_delta \in -1 .. INITIAL_AMMO
    /\ ir_live \in 0 .. 1

\* ================================================================== claims

Max(a, b) == IF a > b THEN a ELSE b

PressOrRepeat == {"Press", "Repeat"}

\* The step is the dequeue-and-dispatch of an iteration, and it dequeued a
\* key event of one of `types`.
Dequeues(key, types) ==
    /\ pc = "poll" /\ pc' # "poll"
    /\ status' = "Ok" /\ event'.key = key /\ event'.type \in types

\* The step is the hit poll and game-over check of an iteration.
HitCheckStep == pc = "recv" /\ pc' = "redraw"

\* The step is a tag callback step on payload p.
TagStep(p) == TagCallback(p)

\* C1: in every reachable state 0 <= health <= 100 and
\* 0 <= ammo <= INITIAL_AMMO.
C1_HealthAmmoInRange ==
    /\ health \in 0 .. 100
    /\ ammo \in 0 .. INITIAL_AMMO

\* C1 witness: both counters have been driven to their lower end in one
\* iteration, the ammo by a shot fired with none left, the health by the
\* 10th hit.
C1_Witness ==
    /\ health = 0 /\ hits = 10
    /\ pc = "redraw" /\ Count(log, "send") = 1 /\ ammo0 = 0 /\ ammo = 0

\* C2 (as stated): every step that takes the session from Game to GameOver
\* requests the failure effect exactly once.
C2_ErrorOncePerGameOver ==
    [][(state = "Game" /\ state' = "GameOver")
          => Count(log', "error") = Count(log, "error") + 1]_vars

\* C3 (as stated): the session leaves GameOver only in the step that dequeues
\* an OK press or repeat, and until then the game state is not reset.
C3_GameOverUntilOkDequeued ==
    [][state = "GameOver" =>
          IF Dequeues("Ok", PressOrRepeat)
          THEN TRUE
          ELSE state' = "GameOver" /\ health' = health /\ ammo' = ammo]_vars

\* C4 (as stated): in the iteration that dequeues a release event, the
\* dispatch changes nothing and sends, scans and exits nothing, and outside
\* Game (where no hit is handled) the rest of the iteration changes neither
\* the session state nor health nor ammo.
C4_ReleaseIgnored ==
    [][/\ (\E k \in InputKeys : Dequeues(k, {"Release"}))
            => /\ state' = state /\ health' = health /\ ammo' = ammo
               /\ running' = running /\ log' = <<>> /\ pc' = "recv"
               /\ reader_scanning' = reader_scanning
       /\ (HitCheckStep /\ status = "Ok" /\ event.type = "Release"
              /\ state # "Game")
            => /\ state' = state /\ health' = health /\ ammo' = ammo
               /\ running' = running]_vars

\* C5: whenever the tag callback can run (the reader is scanning), running
\* it on [0x13, 0x37, any, 0xFD, a] leaves ammo equal to
\* min(ammo + a, INITIAL_AMMO), for every amount byte a.
C5_RefillClamped ==
    reader_scanning =>
        \A p \in TagPayloads :
            (/\ p.length = 5 /\ p.data[1] = 19 /\ p.data[2] = 55
             /\ p.data[4] = 253)
            => tag_callback(p.data, p.length, ammo)
                   = Min(ammo + p.data[5], INITIAL_AMMO)

\* C5 witness: inside a scan window a refill tag has raised the ammo up to
\* INITIAL_AMMO.
C5_Witness ==
    /\ pc = "scan" /\ tag_result = "refill"
    /\ scan_ammo < ammo /\ ammo = INITIAL_AMMO

\* C6: a tag callback whose length is not 5, whose magic bytes are not
\* 0x13 0x37 or whose action code is not 0xFD changes neither ammo nor
\* health nor elapsed time nor the session state.
C6_BadTagIgnored ==
    [][\A p \in TagPayloads :
          (/\ (p.length # 5 \/ p.data[1] # 19 \/ p.data[2] # 55
                 \/ p.data[4] # 253)
           /\ TagStep(p))
          => UNCHANGED <<ammo, health, game_time, state>>]_vars

\* C6 witness: inside a scan window a tag was rejected while there was
\* headroom for a refill, and the ammo is what it was.
C6_Witness ==
    /\ pc = "scan" /\ tag_result \in {"length", "magic", "unknown"}
    /\ ammo = scan_ammo /\ ammo < INITIAL_AMMO

\* C7: in Game a Down press or repeat sets ammo to INITIAL_AMMO when ammo is
\* 0 and otherwise changes nothing and sends nothing.
C7_DownReloadsOnlyAtZero ==
    [][(state = "Game" /\ Dequeues("Down", PressOrRepeat))
          => /\ ammo' = (IF ammo = 0 THEN INITIAL_AMMO ELSE ammo)
             /\ health' = health /\ state' = state
             /\ log' = <<>> /\ pc' = "recv"]_vars

\* C7 witness: a Down press has reloaded an empty magazine.
C7_Witness ==
    /\ pc = "recv" /\ state = "Game" /\ status = "Ok"
    /\ event = [type |-> "Press", key |-> "Down"]
    /\ ammo0 = 0 /\ ammo = INITIAL_AMMO

\* C8: in Game with no hit mid-processing an OK press or repeat sends exactly
\* one pulse and decreases ammo by 1, saturating at 0.
C8_FireSendsAndDecrements ==
    [][(state = "Game" /\ ~processing_signal /\ Dequeues("Ok", PressOrRepeat))
          => /\ Count(log', "send") = 1
             /\ ammo' = Max(ammo - 1, 0)]_vars

\* C8 witness: a pulse was sent with no ammo left.
C8_Witness ==
    /\ pc = "recv" /\ state = "Game" /\ event.key = "Ok"
    /\ Count(log, "send") = 1 /\ ammo0 = 0 /\ ammo = 0

\* C9: a receive() that returns true takes 10 from health (saturating at 0),
\* nothing else lowers health, health 0 goes with GameOver, and GameOver is
\* entered by the 10th hit of the session and by no earlier one.
C9_HitsTakeTen ==
    [][/\ (HitCheckStep /\ state = "Game" /\ hit_received)
            => health' = Max(health - 10, 0)
       /\ health' < health
            => (HitCheckStep /\ state = "Game" /\ hit_received
                   /\ health' = Max(health - 10, 0) /\ hits' = hits + 1)
       /\ (health' = 0) => (state' = "GameOver")
       /\ (state # "GameOver" /\ state' = "GameOver")
            => (state = "Game" /\ hits' = 10 /\ hits = 9)
       /\ (state' = "Game") => (hits' < 10 /\ health' = 100 - 10 * hits')]_vars

\* C9 witness: the 10th hit has just been handled.
C9_Witness ==
    /\ pc = "redraw" /\ state = "GameOver" /\ hits = 10 /\ health = 0

\* C10: whenever the session enters Game, health is 100 and ammo is
\* INITIAL_AMMO.
C10_FreshOnEntry ==
    [][(state # "Game" /\ state' = "Game")
          => (health' = 100 /\ ammo' = INITIAL_AMMO)]_vars

\* C10 witness: a restart: the controller of the finished session was freed
\* in the iteration that entered Game.
C10_Witness ==
    /\ pc = "recv" /\ state = "Game"
    /\ Count(log, "ir_free") = 1 /\ Count(log, "ir_alloc") = 1
    /\ health = 100 /\ ammo = INITIAL_AMMO

\* C11: a Back press or repeat dequeued in SplashScreen or Game clears
\* `running`; from then on no event is dequeued and no scan is started, the
\* main thread reaches the end of laser_tag_app, and there the controller
\* and the reader are released.
C11_BackEndsLoop ==
    /\ [][(state \in {"SplashScreen", "Game"} /\ Dequeues("Back", PressOrRepeat))
             => ~running']_vars
    /\ [](~running => pc \in {"recv", "redraw", "clear", "exit", "done"})
    /\ [](pc = "done" => (~running /\ ir_controller = "NULL" /\ ~reader_scanning))
    /\ (~running ~> pc = "done")

\* C11 witness: the application has exited on a Back press dequeued in Game.
C11_Witness ==
    /\ pc = "done" /\ state = "Game" /\ status = "Ok"
    /\ event = [type |-> "Press", key |-> "Back"]

\* The step belongs to the main thread or to a callback other than the
\* tag callback.
NotTagStep == UNCHANGED <<tag_result, tag_delta>>

\* C12: a tag callback runs only inside the scan window of the Up handler;
\* while the reader scans, and while a callback is between its read of ammo
\* and its increase, no other step writes ammo; the delta computed from the
\* read still fits when it is added, so the increase is not lost and ammo
\* never exceeds INITIAL_AMMO.
C12_CallbackNotInterleaved ==
    /\ [](tag_delta # -1 => reader_scanning)
    /\ [](reader_scanning => pc \in {"scan", "scan_stop", "scan_join"})
    /\ []((tag_delta # -1) => (ammo + tag_delta <= INITIAL_AMMO))
    /\ [](ammo <= INITIAL_AMMO)
    /\ [][((reader_scanning \/ tag_delta # -1) /\ NotTagStep)
             => ammo' = ammo]_vars
    /\ [][(tag_delta > 0 /\ tag_delta' = -1) => ammo' = ammo + tag_delta]_vars

\* C12 witness: a refill callback has read ammo and has not yet written it,
\* and the main thread has polled at least once since the window opened.
C12_Witness ==
    /\ tag_delta > 0 /\ pc = "scan" /\ scan_i > 0 /\ ammo = scan_ammo

\* The main thread is inside the scan window of the Up case.
InScanWindow == pc \in {"scan", "scan_stop", "scan_join"}

\* C13: the Up case calls pause, reader start, (polls), reader stop, resume
\* in this order; the reader scans and reception is paused exactly while
\* the main thread is inside the window, so at the top of every loop
\* iteration the reader is not scanning and reception is not paused.
C13_ScanWindowBracketed ==
    /\ InScanWindow
         => /\ log = IF pc = "scan_join"
                     THEN <<"short_beep", "pause", "start", "stop">>
                     ELSE <<"short_beep", "pause", "start">>
            /\ reader_scanning /\ ir_controller = "live" /\ ~worker_rx_active
    /\ ~InScanWindow
         => /\ ~reader_scanning
            /\ ir_controller = "live" => worker_rx_active
            /\ Count(log, "pause") > 0
                 => /\ Len(log) >= 6
                    /\ SubSeq(log, 1, 5)
                         = <<"short_beep", "pause", "start", "stop", "resume">>
                    /\ Count(log, "pause") = 1 /\ Count(log, "start") = 1
                    /\ Count(log, "stop") = 1 /\ Count(log, "resume") = 1
    /\ pc = "poll" => Count(log, "pause") = 0

\* C13 witness: an iteration that ran a full scan window of 30 polls is
\* about to end, the reader stopped and reception resumed.
C13_Witness ==
    /\ pc = "clear" /\ Count(log, "resume") = 1 /\ Count(log, "error") = 1
    /\ worker_rx_active /\ ~reader_scanning

\* The step is one round of the polling loop of the Up case.
ScanPollStep == pc = "scan" /\ (pc' # "scan" \/ scan_i' # scan_i)

\* C14: the polling loop of the Up case makes at most 30 rounds: a round
\* that finds ammo different from the recorded value, or the 30th round,
\* leaves the loop, any other round is followed by the next one; and every
\* scan window is left.
C14_ScanWindowTerminates ==
    /\ [](scan_i \in 0 .. 29)
    /\ [][ScanPollStep
             => IF ammo # scan_ammo \/ scan_i = 29
                THEN pc' = "scan_stop"
                ELSE pc' = "scan" /\ scan_i' = scan_i + 1]_vars
    /\ (InScanWindow ~> ~InScanWindow)

\* C14 witness: the loop is in its 30th round with the ammo unchanged, a
\* rejected tag having been decoded on the way.
C14_Witness ==
    /\ pc = "scan" /\ scan_i = 29 /\ ammo = scan_ammo
    /\ tag_result = "unknown"

\* The step is the return of lfrfid_reader_stop with the rest of the Up case.
ScanJoinStep == pc = "scan_join" /\ pc' # "scan_join"

\* C15: the end of the Up case requests exactly one result effect: success
\* when the ammo read after stop() differs from the recorded value, failure
\* when it is equal; a window opened at ammo = INITIAL_AMMO cannot change the
\* ammo and ends in failure.
C15_OneResultEffect ==
    /\ [][ScanJoinStep
             => /\ ammo' = ammo
                /\ Count(log, "success") + Count(log, "error") = 0
                /\ log' = log \o <<"resume",
                                   IF ammo # scan_ammo THEN "success" ELSE "error">>]_vars
    /\ []((InScanWindow /\ scan_ammo = INITIAL_AMMO) => ammo = scan_ammo)

\* C15 witness: a window opened at ammo = INITIAL_AMMO decoded a valid
\* refill tag and ended with the failure effect.
C15_Witness ==
    /\ pc = "recv" /\ tag_result = "refill" /\ ammo0 = INITIAL_AMMO
    /\ log = <<"short_beep", "pause", "start", "stop", "resume", "error">>

\* A refill callback that read the ammo before stop() was called, after the
\* polling loop ran out, is still to write it: the window ends in success.
C15_LateTag ==
    /\ pc = "scan_join" /\ tag_delta > 0 /\ ammo = scan_ammo

\* C16: while the main thread is between pause and resume it dequeues no
\* input event and does not poll receive(), the health does not change,
\* and the infrared worker takes in no signal: no decoding is in progress
\* and no hit becomes pending, so the hit poll after the window can only
\* find a hit that was pending when reception was paused.
C16_WindowDeafToPulses ==
    [][InScanWindow
          => /\ health' = health /\ hits' = hits /\ state' = state
             /\ event' = event /\ status' = status
             /\ pc' \in {"scan", "scan_stop", "scan_join", "recv"}
             /\ ~processing_signal /\ ~processing_signal'
             /\ hit_received' = hit_received]_vars

\* C16 witness: a session that has taken one hit went through a full scan
\* window with nothing pending, and the hit poll after the window found
\* nothing.
C16_Witness ==
    /\ pc = "redraw" /\ state = "Game" /\ hits = 1 /\ health = 90
    /\ log = <<"short_beep", "pause", "start", "stop", "resume", "error">>
    /\ ~hit_received /\ ~processing_signal /\ worker_rx_active

\* C17: in Game an Ok press or repeat dequeued while the controller's
\* processing_signal is set does nothing: nothing is sent, no effect is
\* requested, ammo and the rest of the session are as before.
C17_FireBlockedWhileProcessing ==
    [][(state = "Game" /\ processing_signal /\ Dequeues("Ok", PressOrRepeat))
          => /\ log' = <<>> /\ ammo' = ammo /\ health' = health
             /\ state' = state /\ need_redraw' = need_redraw
             /\ running' = running /\ pc' = "recv"]_vars

\* C17 witness: an Ok press was dispatched in Game with ammo left and
\* neither sent a pulse nor requested an effect.
C17_Witness ==
    /\ pc = "recv" /\ state = "Game" /\ status = "Ok"
    /\ event = [type |-> "Press", key |-> "Ok"]
    /\ log = <<>> /\ ammo0 > 0 /\ ammo = ammo0 /\ processing_signal

\* The step enters Game from another state.
EntersGame == state # "Game" /\ state' = "Game"

\* C18: never more than one InfraredController is allocated, and it is the
\* one the application holds; a step that enters Game frees the instance
\* held before, if any, and only then allocates; laser_tag_app_free frees
\* the instance held at exit once and leaves none behind.
C18_OneControllerAtATime ==
    /\ [](ir_live = IF ir_controller = "live" THEN 1 ELSE 0)
    /\ [][EntersGame
             => /\ log' \in {<<"ir_alloc">>, <<"ir_free", "ir_alloc">>,
                             <<"ir_free">>, <<>>}
                /\ Count(log', "ir_free") = ir_live]_vars
    /\ [][(pc = "exit" /\ pc' = "done")
             => /\ Count(log', "ir_free") = ir_live
                /\ ir_live' = 0]_vars
    /\ [](pc = "done" => ir_live = 0)

\* C18 witness: a second session has been entered, the controller of the
\* first one freed and a new one allocated.
C18_Witness ==
    /\ pc = "recv" /\ state = "Game" /\ log = <<"ir_free", "ir_alloc">>
    /\ ir_live = 1 /\ ir_controller = "live"

\* C19: on the splash screen the application holds no InfraredController:
\* none before the first session, and none after GameOver --Ok--> Splash
\* until Game is entered again.
C19_NoControllerInSplash ==
    state = "SplashScreen"
        => /\ ir_controller = "NULL" /\ ir_live = 0
           /\ ~worker_rx_active /\ ~processing_signal

\* C20: Game without a controller exists only after a failed allocation on
\* Splash --Ok--> Game (or after laser_tag_app_free): `running` is then
\* false and the main thread is on its way out of that same iteration,
\* always able to take its next step; nothing was sent, paused, resumed or
\* received, no hit was handled, and no controller is left allocated.
C20_AllocFailureEndsLoop ==
    (state = "Game" /\ ir_controller = "NULL")
        => /\ ~running /\ ir_live = 0
           /\ pc \in {"recv", "redraw", "clear", "exit", "done"}
           /\ ~hit_received /\ ~processing_signal /\ ~worker_rx_active
           /\ pc # "done"
                => /\ ENABLED MainThread
                   /\ hits = 0 /\ health = INITIAL_HEALTH
                   /\ \A i \in 1 .. Len(log) :
                         log[i] \in {"ir_free", "view_port_update"}

\* C20 witness: the application has exited after an Ok press on the splash
\* screen whose controller allocation failed.
C20_Witness ==
    /\ pc = "done" /\ state = "Game" /\ ir_controller = "NULL"
    /\ status = "Ok" /\ event = [type |-> "Press", key |-> "Ok"]
    /\ hits = 0 /\ health = INITIAL_HEALTH

\* The step is the main loop's clearing of need_redraw.
ClearStep == pc = "clear" /\ pc' # "clear"

\* C21: no redraw request is lost: the main loop's clearing of need_redraw
\* never erases a setting made after the view_port_update it follows, so
\* every setting is still flagged when the next test of the flag comes.
C21_NoRedrawRequestLost ==
    [][ClearStep => ~set_after_update]_vars

====
